---- MODULE Spec2Model ----
(***************************************************************************)
(* Verification model of the tickspread/services trade-bound code:         *)
(*   - crates/solvers/src/domain/dex/slippage.rs  (Limits, Slippage)       *)
(*   - crates/shared/src/sources/uniswap_v2.rs    (pair provider)          *)
(*   - crates/database/src/solver_competition.rs  (competition store)      *)
(*                                                                         *)
(* Decimals (BigDecimal) are records [int, scale] denoting int * 10^-scale.*)
(* Widths are scaled down so that the arithmetic stays explicit: the       *)
(* 256-bit amount range is Width bits, Ether amounts carry EtherScale      *)
(* decimals instead of 18, and decimal division keeps DivPrecision         *)
(* significant digits instead of 100.                                      *)
(***************************************************************************)
EXTENDS Integers, Sequences, FiniteSets, TLC

VARIABLES
    newArgs,    \* arguments of the Limits::new call (None before it)
    limits,     \* Option<Limits> returned by Limits::new
    prices,     \* Prices of the auction (None before it is known)
    call,       \* asset of the last Limits::relative call
    slippage,   \* Slippage returned by the last Limits::relative (None before)
    panicked,   \* TRUE once an operation has panicked
    addRes,     \* last Slippage::add: [amount, slip, big, result]
    subRes,     \* last Slippage::sub: [amount, slip, big, result]
    provider,   \* PairProvider built by pair_provider_for_factory
    lastPair,   \* last pair_address resolution
    prevPair,   \* the resolution before it
    store,      \* table solver_competitions: id -> row
    saved,      \* history: id -> arguments of the most recent save
    byId,       \* last load_by_id: [id, row]
    byHash      \* last load_by_tx_hash: [hash, row]

tolVars   == <<newArgs, limits, prices, call, slippage, panicked, addRes, subRes>>
poolVars  == <<provider, lastPair, prevPair>>
storeVars == <<store, saved, byId, byHash>>
vars      == <<tolVars, poolVars, storeVars>>

None    == [tag |-> "None"]
Some(x) == [tag |-> "Some", val |-> x]
IsSome(o) == o.tag = "Some"

(***************************************************************************)
(* Bounds of the model.                                                    *)
(***************************************************************************)
Width        == 6   \* bits of the amount type (U256 in the source)
EtherScale   == 1   \* decimals of an Ether amount (18 in the source)
DivPrecision == 2   \* significant digits kept by decimal division (100)
MaxRelScale  == 2   \* largest scale of a configured relative limit
MaxSmall     == 3   \* amounts 0..MaxSmall are enumerated, plus large ones
MaxAbsolute  == 2   \* absolute caps 0..MaxAbsolute (in Ether atoms)

U256Max == 2^Width - 1

Max(a, b) == IF a >= b THEN a ELSE b

(***************************************************************************)
(* BigDecimal arithmetic, as the bigdecimal crate computes it.             *)
(***************************************************************************)
Dec(i, s) == [int |-> i, scale |-> s]

\* <BigDecimal as Ord>::cmp: the sign of a - b after aligning the scales.
DecCmp(a, b) ==
    LET m  == Max(a.scale, b.scale)
        ai == a.int * 10^(m - a.scale)
        bi == b.int * 10^(m - b.scale)
    IN  IF ai < bi THEN -1 ELSE IF ai > bi THEN 1 ELSE 0

\* <BigDecimal as Mul>::mul: exact.
DecMul(a, b) == Dec(a.int * b.int, a.scale + b.scale)

RECURSIVE CountDecimalDigits(_)
CountDecimalDigits(n) == IF n < 10 THEN 1 ELSE 1 + CountDecimalDigits(n \div 10)

\* get_rounding_term: 1 when the next digit is 5 or more.
GetRoundingTerm(d) == IF d >= 5 THEN 1 ELSE 0

RECURSIVE ShiftNumerator(_, _, _)
ShiftNumerator(num, den, scale) ==
    IF num < den THEN ShiftNumerator(num * 10, den, scale + 1)
    ELSE <<num, scale>>

RECURSIVE DivisionDigits(_, _, _, _, _)
DivisionDigits(quotient, remainder, den, precision, scale) ==
    IF remainder # 0 /\ precision < DivPrecision
    THEN DivisionDigits(quotient * 10 + (remainder \div den),
                        (remainder % den) * 10, den, precision + 1, scale + 1)
    ELSE <<quotient, remainder, scale>>

\* impl_division(num, den, scale, max_precision) for num, den > 0.
ImplDivision(num, den, scale) ==
    LET sh == ShiftNumerator(num, den, scale)
        q0 == sh[1] \div den
        r0 == sh[1] % den
    IN  IF r0 = 0 THEN Dec(q0, sh[2])
        ELSE LET lp == DivisionDigits(q0, r0 * 10, den,
                                      CountDecimalDigits(q0), sh[2])
             IN  IF lp[2] # 0
                 THEN Dec(lp[1] + GetRoundingTerm(lp[2] \div den), lp[3])
                 ELSE Dec(lp[1], lp[3])

Panic == [tag |-> "Panic"]

\* <BigDecimal as Div>::div: panics on a zero divisor.
DecDiv(a, b) ==
    IF b.int = 0 THEN Panic
    ELSE IF a.int = 0 \/ DecCmp(b, Dec(1, 0)) = 0 THEN a
    ELSE IF a.int = b.int THEN Dec(1, a.scale - b.scale)
    ELSE ImplDivision(a.int, b.int, a.scale - b.scale)

\* faulty variant of CmpMin: the larger of the two
CmpMax(a, b) == IF DecCmp(a, b) >= 0 THEN a ELSE b
\* std::cmp::min: the first argument when the two compare equal.
CmpMin(a, b) == IF DecCmp(a, b) <= 0 THEN a ELSE b

\* conv::ether_to_decimal: an Ether amount in atoms as a decimal.
EtherToDecimal(x) == Dec(x, EtherScale)

(***************************************************************************)
(* Limits                                                                  *)
(***************************************************************************)
\* faulty variant of LimitsNew: the upper bound 1 is excluded
LimitsNewExclusive(relative, absolute) ==
    IF DecCmp(relative, Dec(0, 0)) >= 0 /\ DecCmp(relative, Dec(1, 0)) < 0
    THEN Some([relative |-> relative, absolute |-> absolute])
    ELSE None

\* faulty variant of LimitsNew: no upper bound on relative
LimitsNewUnbounded(relative, absolute) ==
    IF DecCmp(relative, Dec(0, 0)) >= 0
    THEN Some([relative |-> relative, absolute |-> absolute])
    ELSE None

\* Limits::new
LimitsNew(relative, absolute) ==
    IF DecCmp(relative, Dec(0, 0)) >= 0 /\ DecCmp(relative, Dec(1, 0)) <= 0
    THEN Some([relative |-> relative, absolute |-> absolute])
    ELSE None

\* Prices.0.get(&asset.token)
PricesGet(table, token) == table[token]

\* faulty variant of LimitsRelative: the absolute cap is ignored
LimitsRelativeUncapped(l, asset, table) == l.relative

\* Limits::relative: a decimal, or Panic.
LimitsRelative(l, asset, table) ==
    IF IsSome(l.absolute) /\ IsSome(PricesGet(table, asset.token))
    THEN LET absolute     == EtherToDecimal(l.absolute.val)
             amount       == DecMul(EtherToDecimal(asset.amount),
                                    PricesGet(table, asset.token).val)
             max_relative == DecDiv(absolute, amount)
         IN  IF max_relative = Panic THEN Panic
             ELSE CmpMin(max_relative, l.relative)
    ELSE l.relative

(***************************************************************************)
(* Slippage                                                                *)
(***************************************************************************)
\* i64::unsigned_abs; the u32::MAX fallback of the conversion that follows is
\* out of reach: every exponent of the model fits in 32 bits.
Abs64(x) == IF x < 0 THEN -x ELSE x

\* faulty variant of DivCeil: rounds down
DivFloor(n, d) == n \div d
\* num::Integer::div_ceil
DivCeil(n, d) == IF n % d = 0 THEN n \div d ELSE (n \div d) + 1

\* conv::biguint_to_u256(..).unwrap_or_else(U256::max_value)
BigUintToU256(n) == IF n > U256Max THEN U256Max ELSE n

\* Slippage::abs, up to the conversion: the slippage amount as a big integer
SlippageAbsBig(s, amount) ==
    LET numer == amount * s.int
        denom == 10^Abs64(s.scale)
    IN  DivCeil(numer, denom)

\* Slippage::abs: Some(the absolute slippage amount), or Panic.
SlippageAbs(s, amount) ==
    IF s.int < 0 THEN Panic
    ELSE Some(BigUintToU256(SlippageAbsBig(s, amount)))

\* faulty variant of SaturatingAdd: wraps around
WrappingAdd(a, b)   == (a + b) % (U256Max + 1)
\* U256::saturating_add
SaturatingAdd(a, b) == IF a + b > U256Max THEN U256Max ELSE a + b
\* U256::saturating_sub
SaturatingSub(a, b) == IF a < b THEN 0 ELSE a - b

\* Slippage::add
SlippageAdd(s, amount) == SaturatingAdd(amount, SlippageAbs(s, amount).val)
\* faulty variant of SlippageSub: the slippage amount is taken off twice
SlippageSubTwice(s, amount) ==
    SaturatingSub(SaturatingSub(amount, SlippageAbs(s, amount).val),
                  SlippageAbs(s, amount).val)
\* Slippage::sub
SlippageSub(s, amount) == SaturatingSub(amount, SlippageAbs(s, amount).val)

(***************************************************************************)
(* Prices                                                                  *)
(***************************************************************************)
\* Prices::new: the price of every listed token, as a decimal.
PricesNew(listed) ==
    [t \in DOMAIN listed |->
        IF IsSome(listed[t]) THEN Some(EtherToDecimal(listed[t].val)) ELSE None]

(***************************************************************************)
(* Inputs of the tolerance engine.                                         *)
(***************************************************************************)
Tokens    == {"WETH", "COW"}
Amounts   == (0..MaxSmall) \cup {U256Max}
RelInts   == {-1, 0, 1, 5, 10, 11}
Relatives == {Dec(i, s) : i \in RelInts, s \in (-1)..MaxRelScale}
Absolutes == {None} \cup {Some(a) : a \in 0..MaxAbsolute}
\* reference prices of an auction, in Ether atoms: none, 0, 1.0 and 2.0 Ether
PriceVals == {None, Some(0), Some(10^EtherScale), Some(2 * 10^EtherScale)}
\* the listings tried: WETH unlisted or at 1.0; COW unlisted, at 0 or at 2.0
Listings  == {l \in [Tokens -> PriceVals] :
                 /\ l["WETH"] \in {None, Some(10^EtherScale)}
                 /\ l["COW"] # Some(10^EtherScale)}

TolInit ==
    /\ newArgs = None
    /\ limits = None
    /\ prices = None
    /\ call = None
    /\ slippage = None
    /\ panicked = FALSE
    /\ addRes = None
    /\ subRes = None

\* let limits = Limits::new(relative, absolute);  (once, from configuration)
New(relative, absolute) ==
    /\ newArgs = None
    /\ newArgs' = Some([relative |-> relative, absolute |-> absolute])
    /\ limits' = LimitsNew(relative, absolute)
    /\ UNCHANGED <<prices, call, slippage, panicked, addRes, subRes>>
    /\ UNCHANGED <<poolVars, storeVars>>

\* let prices = Prices::for_auction(&auction);  (once per auction)
ForAuction(listed) ==
    /\ IsSome(limits)
    /\ prices = None
    /\ prices' = Some(PricesNew(listed))
    /\ UNCHANGED <<newArgs, limits, call, slippage, panicked, addRes, subRes>>
    /\ UNCHANGED <<poolVars, storeVars>>

\* let slippage = limits.relative(&asset, &prices);
Relative(asset) ==
    /\ ~panicked
    /\ IsSome(limits)
    /\ IsSome(prices)
    /\ LET r == LimitsRelative(limits.val, asset, prices.val)
       IN  /\ call' = Some(asset)
           /\ panicked' = (r = Panic)
           /\ slippage' = IF r = Panic THEN None ELSE Some(r)
    /\ addRes' = None
    /\ subRes' = None
    /\ UNCHANGED <<newArgs, limits, prices>>
    /\ UNCHANGED <<poolVars, storeVars>>

\* slippage.add(amount)
Add(amount) ==
    /\ ~panicked
    /\ IsSome(slippage)
    /\ LET a == SlippageAbs(slippage.val, amount)
       IN  IF a = Panic
           THEN /\ panicked' = TRUE
                /\ addRes' = None
           ELSE /\ addRes' = Some([amount |-> amount, slip |-> a.val,
                                   big |-> SlippageAbsBig(slippage.val, amount),
                                   result |-> SlippageAdd(slippage.val, amount)])
                /\ UNCHANGED panicked
    /\ subRes' = None
    /\ UNCHANGED <<newArgs, limits, prices, call, slippage>>
    /\ UNCHANGED <<poolVars, storeVars>>

\* slippage.sub(amount)
Sub(amount) ==
    /\ ~panicked
    /\ IsSome(slippage)
    /\ LET a == SlippageAbs(slippage.val, amount)
       IN  IF a = Panic
           THEN /\ panicked' = TRUE
                /\ subRes' = None
           ELSE /\ subRes' = Some([amount |-> amount, slip |-> a.val,
                                   big |-> SlippageAbsBig(slippage.val, amount),
                                   result |-> SlippageSub(slippage.val, amount)])
                /\ UNCHANGED panicked
    /\ UNCHANGED <<newArgs, limits, prices, call, slippage, addRes>>
    /\ UNCHANGED <<poolVars, storeVars>>

\* amounts a caller passes to sub: a nominal amount, or the result of add
SubAmounts == Amounts \cup (IF IsSome(addRes) THEN {addRes.val.result} ELSE {})

(***************************************************************************)
(* Uniswap V2 pair provider                                                *)
(***************************************************************************)
MaxAddress == 4   \* addresses (factories, tokens) are 1..MaxAddress

Addresses == 1..MaxAddress

INIT_CODE_DIGEST ==
    "96e8ac4277198ff8b6f785478aa9a39f403cb768dd02cbee326c3e7da348845f"

\* pair_provider_for_factory
PairProviderForFactory(factory_address) ==
    [factory |-> factory_address, init_code_digest |-> INIT_CODE_DIGEST]

\* Keccak-256 as an injective function of its input.
Keccak256(bytes) == [keccak256 |-> bytes]

\* faulty variant of OrderTokens: the tokens as given, not ordered
TokensAsGiven(token_a, token_b) == <<token_a, token_b>>

\* the two token addresses in ascending numeric order
OrderTokens(token_a, token_b) ==
    IF token_a < token_b THEN <<token_a, token_b>> ELSE <<token_b, token_a>>

\* resolve_pool_address: the CREATE2 address of the pair's pool
ResolvePoolAddress(identity, token_a, token_b) ==
    LET pair == OrderTokens(token_a, token_b)
        salt == Keccak256(pair)
    IN  [low20 |-> Keccak256([prefix |-> 255,
                              factory |-> identity.factory,
                              salt |-> salt,
                              code |-> identity.init_code_digest])]

PoolInit ==
    /\ provider = None
    /\ lastPair = None
    /\ prevPair = None

\* let provider = pair_provider_for_factory(factory.address());  (at startup)
GetPairProvider(factory_address) ==
    /\ provider = None
    /\ provider' = Some([factory_address |-> factory_address,
                         identity |-> PairProviderForFactory(factory_address)])
    /\ UNCHANGED <<lastPair, prevPair>>
    /\ UNCHANGED <<tolVars, storeVars>>

\* provider.pair_address(TokenPair::new(token_a, token_b))
PairAddress(token_a, token_b) ==
    /\ IsSome(provider)
    /\ token_a # token_b
    /\ prevPair' = lastPair
    /\ lastPair' = Some([a |-> token_a, b |-> token_b,
                         address |-> ResolvePoolAddress(provider.val.identity,
                                                        token_a, token_b)])
    /\ UNCHANGED provider
    /\ UNCHANGED <<tolVars, storeVars>>

(***************************************************************************)
(* Solver competition store                                                *)
(***************************************************************************)
MaxId == 1   \* auction ids are 0..MaxId

Ids    == 0..MaxId
Jsons  == {"true", "false"}
Hashes == {"01", "02"}
TxHashes == {None} \cup {Some(h) : h \in Hashes}

RowsOf(table, id) == {row \in table : row.id = id}

\* faulty variant of SaveQuery: INSERT ... ON CONFLICT (id) DO NOTHING
SaveKeepFirst(table, id, data, tx_hash) ==
    IF RowsOf(table, id) # {} THEN table
    ELSE table \cup {[id |-> id, json |-> data, tx_hash |-> tx_hash]}

\* save: INSERT ... ON CONFLICT (id) DO UPDATE SET json, tx_hash
SaveQuery(table, id, data, tx_hash) ==
    IF RowsOf(table, id) # {}
    THEN {IF row.id = id
          THEN [row EXCEPT !.json = data, !.tx_hash = tx_hash]
          ELSE row : row \in table}
    ELSE table \cup {[id |-> id, json |-> data, tx_hash |-> tx_hash]}

\* load_by_id: SELECT json, tx_hash ... WHERE id = $1
LoadByIdQuery(table, id) ==
    {[json |-> row.json, tx_hash |-> row.tx_hash] : row \in RowsOf(table, id)}

\* load_by_tx_hash: SELECT json, id ... WHERE tx_hash = $1
LoadByTxHashQuery(table, tx_hash) ==
    {[json |-> row.json, id |-> row.id] :
        row \in {r \in table : r.tx_hash = Some(tx_hash)}}

\* fetch_optional: no row, or one of the rows the query selects
FetchOptional(rows) == IF rows = {} THEN {None} ELSE {Some(r) : r \in rows}

StoreInit ==
    /\ store = {}
    /\ saved = [i \in Ids |-> None]
    /\ byId = None
    /\ byHash = None

Save(id, data, tx_hash) ==
    /\ store' = SaveQuery(store, id, data, tx_hash)
    /\ saved' = [saved EXCEPT ![id] =
                    Some([json |-> data, tx_hash |-> tx_hash,
                          overwrote |-> IsSome(saved[id])])]
    /\ byId' = None
    /\ byHash' = None
    /\ UNCHANGED <<tolVars, poolVars>>

LoadById(id) ==
    /\ \E r \in FetchOptional(LoadByIdQuery(store, id)) :
          byId' = Some([id |-> id, row |-> r])
    /\ UNCHANGED <<store, saved, byHash>>
    /\ UNCHANGED <<tolVars, poolVars>>

LoadByTxHash(tx_hash) ==
    /\ \E r \in FetchOptional(LoadByTxHashQuery(store, tx_hash)) :
          byHash' = Some([tx_hash |-> tx_hash, row |-> r])
    /\ UNCHANGED <<store, saved, byId>>
    /\ UNCHANGED <<tolVars, poolVars>>

(***************************************************************************)
(* Specifications: one per component; the components share no state.       *)
(***************************************************************************)
Init == TolInit /\ PoolInit /\ StoreInit

Next ==
    \/ \E r \in Relatives, a \in Absolutes : New(r, a)
    \/ \E listed \in Listings : ForAuction(listed)
    \/ \E t \in Tokens, m \in Amounts : Relative([token |-> t, amount |-> m])
    \/ \E m \in Amounts : Add(m)
    \/ \E m \in SubAmounts : Sub(m)

Spec == Init /\ [][Next]_vars

PoolNext ==
    \/ \E f \in Addresses : GetPairProvider(f)
    \/ \E a \in Addresses, b \in Addresses : PairAddress(a, b)

PoolSpec == Init /\ [][PoolNext]_vars

StoreNext ==
    \/ \E i \in Ids, j \in Jsons, h \in TxHashes : Save(i, j, h)
    \/ \E i \in Ids : LoadById(i)
    \/ \E h \in Hashes : LoadByTxHash(h)

StoreSpec == Init /\ [][StoreNext]_vars

(***************************************************************************)
(* Exact (rational) readings of decimals, used to state the properties.    *)
(***************************************************************************)
\* the sign of  d.int * 10^-d.scale  -  n / m   (m > 0)
CmpDecRat(d, n, m) ==
    LET lhs == IF d.scale >= 0 THEN d.int * m ELSE d.int * 10^(-d.scale) * m
        rhs == IF d.scale >= 0 THEN n * 10^d.scale ELSE n
    IN  IF lhs < rhs THEN -1 ELSE IF lhs > rhs THEN 1 ELSE 0

\* the sign of the difference of two decimals' exact values
CmpExact(a, b) ==
    LET off == Max(Max(-a.scale, -b.scale), 0)
        lhs == a.int * 10^(b.scale + off)
        rhs == b.int * 10^(a.scale + off)
    IN  IF lhs < rhs THEN -1 ELSE IF lhs > rhs THEN 1 ELSE 0

\* the state of a completed Limits::relative call
Returned   == IsSome(call) /\ IsSome(slippage)
HasCap     == IsSome(limits.val.absolute)
TokenPrice == prices.val[call.val.token]
Capped     == HasCap /\ IsSome(TokenPrice)
\* absolute / (amount * price) = CapNumer / TradeValue, in exact arithmetic
CapNumer   == limits.val.absolute.val * 10^EtherScale
TradeValue == call.val.amount * TokenPrice.val.int

----------------------------------------------------------------------------
\* the least decimal scale at which n / m shows DivPrecision significant
\* digits before the point (n, m > 0)
RECURSIVE SignificantScale(_, _, _)
SignificantScale(n, m, k) ==
    IF n * 10^k >= 10^(DivPrecision - 1) * m THEN k
    ELSE SignificantScale(n, m, k + 1)

\* n / m rounded half-up to DivPrecision significant digits, as a decimal
RoundedQuotient(n, m) ==
    IF n = 0 THEN Dec(0, 0)
    ELSE LET k == SignificantScale(n, m, 0)
         IN  Dec((2 * n * 10^k + m) \div (2 * m), k)

InUnitInterval(r) ==
    IF r.scale >= 0 THEN 0 <= r.int /\ r.int <= 10^r.scale
    ELSE 0 <= r.int /\ r.int * 10^(-r.scale) <= 1

C2_NewAcceptsUnitInterval ==
    IsSome(newArgs) =>
        /\ IsSome(limits) <=> InUnitInterval(newArgs.val.relative)
        /\ IsSome(limits) => limits.val = newArgs.val

C2_Witness ==
    /\ IsSome(limits)
    /\ limits.val.relative = Dec(10, 1)
    /\ limits.val.absolute = None

\* C3: every tolerance fraction returned by Limits.relative is >= 0 and
\* <= the configured relative limit.
C3_FractionWithinRelative ==
    Returned =>
        /\ slippage.val.int >= 0
        /\ CmpExact(slippage.val, limits.val.relative) <= 0

C3_Witness ==
    /\ Returned
    /\ Capped
    /\ slippage.val.int > 0
    /\ CmpExact(slippage.val, limits.val.relative) < 0

\* C4: add(amount) >= amount, sub(amount) <= amount, and add saturates:
\* its result is min(amount + slippage amount, U256Max).
C4_AddSubBounds ==
    /\ IsSome(addRes) =>
          LET r == addRes.val
          IN  /\ r.result >= r.amount
              /\ r.amount + r.slip <= U256Max => r.result = r.amount + r.slip
              /\ r.amount + r.slip > U256Max => r.result = U256Max
    /\ IsSome(subRes) => subRes.val.result <= subRes.val.amount

C4_Witness ==
    /\ IsSome(addRes)
    /\ addRes.val.amount = U256Max
    /\ addRes.val.slip > 0
    /\ addRes.val.result = U256Max

\* C5: the slippage amount applied to an amount is the ceiling of
\* amount * fraction: never below the exact product, and less than one above.
IsCeiling(slip, amount, f) ==
    IF f.scale >= 0
    THEN /\ slip * 10^f.scale >= amount * f.int
         /\ (slip - 1) * 10^f.scale < amount * f.int
    ELSE slip = amount * f.int * 10^(-f.scale)

C6_NoPanic == ~panicked

\* a round trip: sub applied to the result of an add that did not saturate
RoundTrip ==
    /\ IsSome(addRes)
    /\ IsSome(subRes)
    /\ subRes.val.amount = addRes.val.result
    /\ addRes.val.amount + addRes.val.slip <= U256Max

Distance(a, b) == IF a >= b THEN a - b ELSE b - a

AtMostCapInTokens(slip) ==
    (slip - 1) * TokenPrice.val.int < CapNumer

C10_SlippageAmountWithinCap ==
    (Returned /\ Capped /\ TokenPrice.val.int > 0 /\ call.val.amount > 0) =>
        /\ (IsSome(addRes) /\ addRes.val.amount = call.val.amount
              /\ addRes.val.amount + addRes.val.slip <= U256Max)
             => AtMostCapInTokens(addRes.val.result - addRes.val.amount)
        /\ (IsSome(subRes) /\ subRes.val.amount = call.val.amount)
             => AtMostCapInTokens(subRes.val.amount - subRes.val.result)

\* C8: pool address resolution is symmetric in the token pair and
\* deterministic: under one pool identity (the factory passed to
\* pair_provider_for_factory plus the fixed init-code digest), resolving
\* (A, B) and (B, A), or the same pair twice, yields the same address.
SamePair(x, y) == {x.a, x.b} = {y.a, y.b}

C8_SymmetricResolution ==
    /\ IsSome(provider) =>
          /\ provider.val.identity.factory = provider.val.factory_address
          /\ provider.val.identity.init_code_digest = INIT_CODE_DIGEST
    /\ (IsSome(lastPair) /\ IsSome(prevPair)
          /\ SamePair(lastPair.val, prevPair.val))
         => lastPair.val.address = prevPair.val.address

C8_Witness ==
    /\ IsSome(lastPair)
    /\ IsSome(prevPair)
    /\ lastPair.val.a = prevPair.val.b
    /\ lastPair.val.b = prevPair.val.a
    /\ lastPair.val.a > lastPair.val.b
    /\ lastPair.val.address = prevPair.val.address

\* C9: after any sequence of saves the store holds at most one row per
\* auction id, that row carrying the json and tx_hash of the most recent
\* save of the id (none if the id was never saved); load_by_id returns
\* exactly that; load_by_tx_hash(h) returns a row only of an id whose
\* current tx_hash is h, and nothing when there is none.
RowOfSave(id) ==
    [id |-> id, json |-> saved[id].val.json, tx_hash |-> saved[id].val.tx_hash]

C9_StoreHoldsLatestSave ==
    /\ \A id \in Ids :
          RowsOf(store, id) = IF IsSome(saved[id]) THEN {RowOfSave(id)} ELSE {}
    /\ \A row \in store : row.id \in Ids
    /\ IsSome(byId) =>
          LET id == byId.val.id
          IN  IF IsSome(saved[id])
              THEN /\ IsSome(byId.val.row)
                   /\ byId.val.row.val.json = saved[id].val.json
                   /\ byId.val.row.val.tx_hash = saved[id].val.tx_hash
              ELSE byId.val.row = None
    /\ IsSome(byHash) =>
          LET h == byHash.val.tx_hash
              current == {id \in Ids : /\ IsSome(saved[id])
                                       /\ saved[id].val.tx_hash = Some(h)}
          IN  IF current = {} THEN byHash.val.row = None
              ELSE /\ IsSome(byHash.val.row)
                   /\ byHash.val.row.val.id \in current
                   /\ byHash.val.row.val.json
                         = saved[byHash.val.row.val.id].val.json

C9_Witness ==
    /\ IsSome(byId)
    /\ IsSome(saved[byId.val.id])
    /\ saved[byId.val.id].val.overwrote
    /\ IsSome(byId.val.row)
    /\ byId.val.row.val.json = "false"
    /\ byId.val.row.val.tx_hash = Some("01")
    /\ \E id \in Ids : id # byId.val.id /\ IsSome(saved[id])

\* C11: for every tolerance Limits.relative returns and every amount, the
\* slippage amount is <= amount: the big-integer slippage amount fits the
\* amount type (the conversion fallback to the maximum is not taken), the
\* zero clamp of sub is not reached, and sub(amount) = amount - slippage
\* amount exactly.
WithinAmount(r) ==
    /\ r.big <= U256Max
    /\ r.slip = r.big
    /\ r.slip <= r.amount

====
